---- MODULE Spec2Model ----
(***************************************************************************)
(* A model of the template JIT compiler of dynasm-jit-demo.                *)
(*                                                                         *)
(* Two variants of the compiler are modelled side by side:                 *)
(*   "native"  src/src/demo.c        the x86-64 call stack is the stack of *)
(*                                   the bytecode machine (64-bit slots)   *)
(*   "custom"  src/unnamed/part_001  a 64-slot area of 32-bit slots below  *)
(*                                   the saved registers, addressed by r12 *)
(*                                                                         *)
(* Machine words.  TLC integers are 32-bit, so a 32-bit register or memory *)
(* dword is the signed integer with the same bit pattern (-2^31..2^31-1),  *)
(* and a 64-bit register is a pair <<hi, lo>> of two such dwords.  Memory  *)
(* is an array of dwords; a qword at dword address a is lo = mem[a],       *)
(* hi = mem[a+1] (little endian).  Addresses count dwords.                 *)
(***************************************************************************)
EXTENDS Integers, Sequences, FiniteSets, TLC

(***************************************************************************)
(* 32-bit and 64-bit two's complement arithmetic                           *)
(***************************************************************************)
INT32_MAX == 2147483647

INT32_MIN == -INT32_MAX - 1

Int32 == INT32_MIN..INT32_MAX

\* a + b modulo 2^32 on bit patterns, computed without leaving the 32-bit range
Add32(a, b) ==
    IF a >= 0 /\ b >= 0 /\ a > INT32_MAX - b
        THEN (a - INT32_MAX - 1) + (b - INT32_MAX - 1)
    ELSE IF a < 0 /\ b < 0 /\ a < INT32_MIN - b
        THEN (a + INT32_MAX + 1) + (b + INT32_MAX + 1)
    ELSE a + b

\* unsigned comparison of two 32-bit patterns
ULt32(a, b) ==
    IF (a < 0) = (b < 0) THEN a < b ELSE a >= 0

\* carry out of the unsigned 32-bit addition a + b
Carry32(a, b) == IF ULt32(Add32(a, b), a) THEN 1 ELSE 0

\* a 32-bit value widened to 64 bits with its sign (push imm32, push imm8)
SignExt64(v) == <<IF v < 0 THEN -1 ELSE 0, v>>

\* a 32-bit value widened to 64 bits with zeros (a write to eax, esi, ecx)
ZeroExt64(v) == <<0, v>>

\* 64-bit addition (add rax, rcx)
Add64(x, y) ==
    <<Add32(Add32(x[1], y[1]), Carry32(x[2], y[2])), Add32(x[2], y[2])>>

\* signed 64-bit x < y (the flags jg and je read after cmp / test)
SLt64(x, y) ==
    \/ x[1] < y[1]
    \/ x[1] = y[1] /\ ULt32(x[2], y[2])

(***************************************************************************)
(* The bytecode: enum op, the OPERAND() macro and the program of main      *)
(***************************************************************************)
OP_CONSTANT == 0

OP_ADD == 1

OP_PRINT == 2

OP_INPUT == 3

OP_DISCARD == 4

OP_GET == 5

OP_SET == 6

OP_CMP == 7

OP_JGT == 8

OP_HALT == 9

\* the opcodes followed by a 4-byte operand (instrptr += 5)
HasOperand(op) == op \in {OP_CONSTANT, OP_GET, OP_SET, OP_JGT}

\* the bytes instrptr advances by after the case of op
InstrLen(op) == IF HasOperand(op) THEN 5 ELSE 1

\* OPERAND(): the little-endian two's complement i32 behind the opcode at
\* 0-based byte offset off (program is a 1-based sequence of bytes)
OPERAND(prog, off) ==
    LET b1 == prog[off + 2]
        b2 == prog[off + 3]
        b3 == prog[off + 4]
        b4 == prog[off + 5]
    IN  b1 + 256 * b2 + 65536 * b3
           + 16777216 * (IF b4 < 128 THEN b4 ELSE b4 - 256)

\* u8 program[] of main
MainProgram ==
    << OP_INPUT, OP_INPUT,
       OP_CONSTANT, 0, 0, 0, 0,
       OP_GET, 0, 0, 0, 0,
       OP_GET, 3, 0, 0, 0,
       OP_ADD,
       OP_SET, 0, 0, 0, 0,
       OP_GET, 1, 0, 0, 0,
       OP_CONSTANT, 255, 255, 255, 255,
       OP_ADD,
       OP_SET, 1, 0, 0, 0,
       OP_GET, 1, 0, 0, 0,
       OP_CONSTANT, 0, 0, 0, 0,
       OP_CMP,
       OP_JGT, 213, 255, 255, 255,
       OP_GET, 0, 0, 0, 0,
       OP_PRINT,
       OP_HALT >>

\* the argv pairs main is run on (atoi of the two arguments)
MainInputs == { <<4, 5>>, <<0, 7>>, <<6, -3>> }

(***************************************************************************)
(* The programs and input streams the model is run on                      *)
(***************************************************************************)
\* instructions in a generated program body
MaxInstrs == 3

\* largest GET / SET offset in a generated program
MaxOffset == 1

\* taken backward jumps after which a run is cut off
MaxBackJumps == 6

\* immediates of generated CONSTANT instructions
ConstVals == {INT32_MIN, -1, 1, INT32_MAX}

\* values of the generated input streams
InVals == {INT32_MIN, -1, 0, 1, INT32_MAX}

\* the four operand bytes of the i32 v, least significant first
Bytes32(v) ==
    LET u == IF v < 0 THEN (v + INT32_MAX) + 1 ELSE v
        top == (u \div 16777216) + (IF v < 0 THEN 128 ELSE 0)
    IN  << u % 256, (u \div 256) % 256, (u \div 65536) % 256, top >>

\* the bytes of one instruction <<op, operand>>
EncodeInstr(ins) ==
    IF HasOperand(ins[1]) THEN <<ins[1]>> \o Bytes32(ins[2]) ELSE <<ins[1]>>

RECURSIVE EncodeAll(_)
EncodeAll(body) ==
    IF body = <<>> THEN <<>>
    ELSE EncodeInstr(Head(body)) \o EncodeAll(Tail(body))

\* change of the stack depth by one instruction
StackEffect(op) ==
    IF op \in {OP_CONSTANT, OP_INPUT, OP_GET} THEN 1
    ELSE IF op = OP_HALT THEN 0
    ELSE -1

\* values an instruction needs on the stack (GET k and SET k need more, below)
Needs(ins) ==
    CASE ins[1] \in {OP_ADD, OP_CMP} -> 2
      [] ins[1] \in {OP_PRINT, OP_DISCARD, OP_JGT} -> 1
      [] ins[1] = OP_GET -> ins[2] + 1
      [] ins[1] = OP_SET -> ins[2] + 2
      [] OTHER -> 0

\* byte offset of instruction i (1-based) of an instruction list
RECURSIVE StartOf(_, _)
StartOf(body, i) ==
    IF i = 1 THEN 0 ELSE StartOf(body, i - 1) + InstrLen(body[i - 1][1])

\* stack depth before instruction i on the straight-line path
RECURSIVE DepthAt(_, _)
DepthAt(body, i) ==
    IF i = 1 THEN 0 ELSE DepthAt(body, i - 1) + StackEffect(body[i - 1][1])

\* A body of symbolic instructions; a JGT carries the index of its target
\* instruction (Len(body)+1 is the first instruction after the body).
BodyInstrs(n) ==
    {<<OP_CONSTANT, c>> : c \in ConstVals}
    \cup {<<op, 0>> : op \in {OP_ADD, OP_PRINT, OP_INPUT, OP_DISCARD, OP_CMP}}
    \cup {<<op, k>> : op \in {OP_GET, OP_SET}, k \in 0..MaxOffset}
    \cup {<<OP_JGT, t>> : t \in 1..(n + 1)}

\* balanced pushes and pops, offsets within the stack, jumps between points
\* of equal stack depth
BodyWellFormed(body) ==
    \A i \in 1..Len(body) :
        /\ DepthAt(body, i) >= Needs(body[i])
        /\ body[i][1] = OP_JGT =>
              DepthAt(body, body[i][2]) = DepthAt(body, i) - 1

BodiesUpTo(k) ==
    UNION { {b \in [1..n -> BodyInstrs(n)] : BodyWellFormed(b)} : n \in 1..k }

Bodies == BodiesUpTo(MaxInstrs)

\* the epilogue prints what the body left on the stack, then halts
Epilogue(depth) == [i \in 1..(depth + 1) |-> IF i <= depth THEN OP_PRINT ELSE OP_HALT]

\* the byte sequence of a body: jump targets become offsets relative to the JGT
ProgramOf(body) ==
    LET rel == [i \in 1..Len(body) |->
                  IF body[i][1] = OP_JGT
                     THEN <<OP_JGT, StartOf(body \o <<<<OP_HALT, 0>>>>, body[i][2])
                                      - StartOf(body, i)>>
                     ELSE body[i]]
    IN  EncodeAll(rel) \o Epilogue(DepthAt(body, Len(body) + 1))

GenPrograms == {ProgramOf(b) : b \in Bodies}

\* number of INPUT instructions of a program
RECURSIVE CountInputs(_, _)
CountInputs(prog, off) ==
    IF off >= Len(prog) THEN 0
    ELSE (IF prog[off + 1] = OP_INPUT THEN 1 ELSE 0)
         + CountInputs(prog, off + InstrLen(prog[off + 1]))

\* a countdown with a forward jump over a HALT and a backward jump:
\*    0 INPUT   1 GET 0   6 JGT +6   11 HALT
\*   12 CONSTANT -1   17 ADD   18 GET 0   23 JGT -11   28 PRINT   29 HALT
CountdownProgram ==
    << OP_INPUT,
       OP_GET, 0, 0, 0, 0,
       OP_JGT, 6, 0, 0, 0,
       OP_HALT,
       OP_CONSTANT, 255, 255, 255, 255,
       OP_ADD,
       OP_GET, 0, 0, 0, 0,
       OP_JGT, 245, 255, 255, 255,
       OP_PRINT,
       OP_HALT >>

CountdownInputs == { <<v>> : v \in InVals \cup {2, 3} }

\* JGT operands whose target is no instruction of INPUT; JGT d; HALT (7 bytes,
\* the JGT at offset 1): inside the operand, at program_len, below 0, far off
BadJumpOperands == {2, 6, -2, 1000}

BadJumpPrograms ==
    { <<OP_INPUT, OP_JGT>> \o Bytes32(d) \o <<OP_HALT>> : d \in BadJumpOperands }

\* the runs on which compile is called a second time
TwiceRuns ==
    {<<MainProgram, i>> : i \in MainInputs}
    \cup {<<CountdownProgram, i>> : i \in CountdownInputs}
    \cup UNION { {<<p, i>> : i \in [1..CountInputs(p, 0) -> InVals]} :
                   p \in {ProgramOf(b) : b \in BodiesUpTo(MaxInstrs - 1)} }

\* the pairs <<program, input stream>> main's compile and call are run on
Runs ==
    {<<MainProgram, i>> : i \in MainInputs}
    \cup {<<CountdownProgram, i>> : i \in CountdownInputs}
    \cup {<<p, <<1>>>> : p \in BadJumpPrograms}
    \cup UNION { {<<p, i>> : i \in [1..CountInputs(p, 0) -> InVals]} : p \in GenPrograms }

(***************************************************************************)
(* State                                                                   *)
(***************************************************************************)
VARIABLES
    variant,    \* "native": src/src/demo.c, "custom": src/unnamed/part_001
    program,    \* u8 *program, a sequence of bytes; program_len is its length
    input,      \* i32 input[] of main
    phase,      \* where main / compile / our_dasm_link_and_encode stand
    instrptr,   \* instrptr - program, the byte offset of the scan
    dasm,       \* the dasm_State: [alive, status, actions, pclabels, npc, defs]
    size,       \* size_t size of our_dasm_link_and_encode
    code,       \* void *code: "none", "MAP_FAILED" or "region"
    region,     \* the mapped pages: [perms, bytes]
    ip,         \* rip, as the index of the template being executed
    m,          \* registers and stack memory: [rsp, rbp, rbx, r12, mem]
    out,        \* the values printf has printed (64-bit, "%zd")
    ref,        \* the bytecode machine of the instruction table, in lockstep
    last,       \* the template executed last: [op, off, imm, taken]
    backJumps,  \* taken backward jumps of this run
    stderr,     \* what has been written to stderr: the messages of assert
    round,      \* which call of compile this is: 1, or 2 when it is called again
    first,      \* what the first call of compile gave: [addr, bytes, out]
    nInputs,    \* INPUT templates executed in this invocation
    threads,    \* two invocations on two threads: [ip, regs, in, out, done] each
    shmem,      \* the memory the two threads share, each with a stack of its own
    alone,      \* the same two invocations, each run alone: [ip, m, out, done]
    maxRead,    \* the highest index compile has read program[] at, -1 for none
    both        \* one invocation of each variant's code: [bytes, ip, m, out, ...]

vars ==
    <<variant, program, input, phase, instrptr, dasm, size, code, region,
      ip, m, out, ref, last, backJumps, stderr, round, first,
      nInputs, threads, shmem, alone, maxRead, both>>

compileVars == <<instrptr, dasm, size, code, region, maxRead>>

runVars == <<ip, m, out, ref, last, backJumps>>

\* what only the steps named below change
thrVars == <<threads, shmem, alone, both>>

auxVars == <<stderr, round, first, nInputs, thrVars>>

(***************************************************************************)
(* compile: the templates emitted for each opcode                          *)
(***************************************************************************)
\* the prologue is the first template of every function
TPL_PROLOGUE == -1

\* bytes of a stack slot: 8 * OPERAND() in demo.c, #STACK in part_001
SlotBytes(v) == IF v = "native" THEN 8 ELSE 4

\* TemplateImm with the jump relative to the end of the JGT instruction
TemplateImmFromEnd(v, prog, off) ==
    LET op == prog[off + 1]
    IN  CASE op = OP_CONSTANT -> OPERAND(prog, off)
          [] op = OP_GET \/ op = OP_SET ->
                IF v = "native" THEN 8 * OPERAND(prog, off)
                                ELSE -1 - OPERAND(prog, off)
          [] op = OP_JGT -> off + 5 + OPERAND(prog, off)
          [] OTHER -> 0

\* the encoding-time constant dasm_put receives for the opcode at offset off
TemplateImm(v, prog, off) ==
    LET op == prog[off + 1]
    IN  CASE op = OP_CONSTANT -> OPERAND(prog, off)
          [] op = OP_GET \/ op = OP_SET ->
                IF v = "native" THEN 8 * OPERAND(prog, off)
                                ELSE -1 - OPERAND(prog, off)
          [] op = OP_JGT -> off + OPERAND(prog, off)
          [] OTHER -> 0

\* the template of the opcode at offset off, with the pc label put before it
Template(v, prog, off) ==
    [op |-> prog[off + 1], imm |-> TemplateImm(v, prog, off), lbl |-> off]

\* |=> offset: binds pc label offset to the position after the actions so far;
\* defs counts how often compile has put the label (0, 1, or 2 for more)
DefineLabel(d, off) ==
    IF off < d.npc
        THEN [d EXCEPT !.pclabels[off] = Len(d.actions) + 1,
                       !.defs[off] = IF @ < 2 THEN @ + 1 ELSE @]
        ELSE [d EXCEPT !.status = "RANGE_PC"]

\* jg => offset: a reference to a pc label outside 0..npc-1 sets the status
ReferLabel(d, n) ==
    IF n >= 0 /\ n < d.npc THEN d ELSE [d EXCEPT !.status = "RANGE_PC"]

\* dasm_put of one template
Put(d, t) ==
    LET d1 == IF t.op = OP_JGT THEN ReferLabel(d, t.imm) ELSE d
    IN  [d1 EXCEPT !.actions = Append(@, t)]

\* dasm_init, dasm_setupglobal, dasm_setup, dasm_growpc(program_len)
NewDasm(len) ==
    [alive |-> TRUE, status |-> "OK", actions |-> <<>>,
     pclabels |-> [o \in 0..(len - 1) |-> 0], npc |-> len,
     defs |-> [o \in 0..(len - 1) |-> 0]]

NoDasm ==
    [alive |-> FALSE, status |-> "OK", actions |-> <<>>,
     pclabels |-> <<>>, npc |-> 0, defs |-> <<>>]

Opcodes == OP_CONSTANT..OP_HALT

(***************************************************************************)
(* The machine the generated code runs on                                  *)
(***************************************************************************)
\* slots of the stack area of part_001: sub rsp, 64 * #STACK
CustomSlots == 64

\* dwords of modelled stack memory, and rsp on entry (at the return address;
\* rsp was 16-byte aligned before the call of main pushed it)
MemDwords == CustomSlots + 16

EntryRsp == MemDwords - 6

\* 64-bit pointers: into the stack memory, into input[], into the code
StackPtr(a) == <<1, a>>

InputPtr(i) == <<2, i>>

CodePtr(i) == <<3, i>>

\* what the caller of the generated function holds in the callee-saved
\* registers, and where it continues
CallerRbx == <<4, 11>>

CallerRbp == <<4, 12>>

CallerR12 == <<4, 13>>

ReturnAddress == <<4, 14>>

\* the machine when main executes call: the return address is pushed
EntryMachine ==
    [rsp |-> EntryRsp, rbp |-> CallerRbp, rbx |-> CallerRbx, r12 |-> CallerR12,
     mem |-> [a \in 0..(MemDwords - 1) |->
                 IF a = EntryRsp THEN ReturnAddress[2]
                 ELSE IF a = EntryRsp + 1 THEN ReturnAddress[1]
                 ELSE 0]]

Load64(mem, a) == <<mem[a + 1], mem[a]>>

Store64(mem, a, w) == [mem EXCEPT ![a] = w[2], ![a + 1] = w[1]]

\* push r64 / push imm
Push(mm, w) ==
    [mm EXCEPT !.rsp = @ - 2, !.mem = Store64(@, mm.rsp - 2, w)]

\* the qword pop reads, and the machine after pop
Top64(mm) == Load64(mm.mem, mm.rsp)

Pop(mm) == [mm EXCEPT !.rsp = @ + 2]

\* input[i] for the 0-based cursor i; the streams are the chosen values
\* followed by zeros, so that every stream is long enough for its program
InputAt(in, i) == IF i + 1 <= Len(in) THEN in[i + 1] ELSE 0

\* CallPrintf for a callee that does not give rbx back
CallPrintfClobbersRbx(mm, retip) ==
    [mm EXCEPT !.rbx = <<0, 0>>,
               !.mem = Store64(@, mm.rsp - 2, CodePtr(retip))]

\* call rax: the return address is pushed, printf runs and returns. By the
\* calling convention rsp, rbp, rbx and r12 come back as they were, and so
\* does the memory from rsp upwards; the memory of this stack below the
\* return address is printf's to overwrite. The caller-saved registers come back arbitrary:
\* they are no part of the machine, every template loads a register before
\* it reads it.
CallPrintf(mm, retip) ==
    [mm EXCEPT !.mem = [a \in DOMAIN mm.mem |->
                          IF a < mm.rsp - 2 /\ a >= (mm.rsp \div MemDwords) * MemDwords
                             THEN INT32_MAX - a
                          ELSE Store64(mm.mem, mm.rsp - 2, CodePtr(retip))[a]]]

(***************************************************************************)
(* src/src/demo.c: the templates, on the x86-64 stack                      *)
(***************************************************************************)
\* NativePrologue with one more qword reserved below the frame pointer
NativeProloguePadded(mm, rdi) ==
    LET m1 == Push(mm, mm.rbx)
        m2 == Push(m1, m1.rbp)
    IN  [m2 EXCEPT !.rbp = StackPtr(m2.rsp), !.rbx = rdi, !.rsp = @ - 2]

\* push rbx; push rbp; mov rbp, rsp; mov rbx, rdi
NativePrologue(mm, rdi) ==
    LET m1 == Push(mm, mm.rbx)
        m2 == Push(m1, m1.rbp)
    IN  [m2 EXCEPT !.rbp = StackPtr(m2.rsp), !.rbx = rdi]

\* push operand
NativeConstant(mm, imm) == Push(mm, SignExt64(imm))

\* NativeAdd with the wrong register pushed: add rax, rcx; push rcx
NativeAddPushRcx(mm) == Push(Pop(Pop(mm)), Top64(mm))

\* pop rcx; pop rax; add rax, rcx; push rax
NativeAdd(mm) ==
    LET rcx == Top64(mm)
        rax == Top64(Pop(mm))
    IN  Push(Pop(Pop(mm)), Add64(rax, rcx))

\* mov64 rdi, "%zd\n"; pop rsi; mov64 rax, printf; call rax
NativePrintArg(mm) == Top64(mm)

NativePrint(mm, retip) == CallPrintf(Pop(mm), retip)

\* NativeInput with the cursor kept in one memory cell for all invocations
NativeInputSharedCursor(mm, in) ==
    LET k == mm.mem[0]
        m1 == Push(mm, ZeroExt64(InputAt(in, k)))
    IN  [m1 EXCEPT !.mem[0] = k + 1]

\* NativeInput without add rbx, 4
NativeInputStays(mm, in) == Push(mm, ZeroExt64(InputAt(in, mm.rbx[2])))

\* mov eax, dword [rbx]; push rax; add rbx, 4
NativeInput(mm, in) ==
    LET rax == ZeroExt64(InputAt(in, mm.rbx[2]))
    IN  [Push(mm, rax) EXCEPT !.rbx = <<mm.rbx[1], mm.rbx[2] + 1>>]

\* NativeDiscard that pops nothing
NativeDiscardKeeps(mm) == mm

\* pop rax
NativeDiscard(mm) == Pop(mm)

\* mov rax, [rsp + 8 * OPERAND()]; push rax
NativeGet(mm, imm) == Push(mm, Load64(mm.mem, mm.rsp + imm \div 4))

\* NativeSet with the store before the pop: the offset counts from the old top
NativeSetBeforePop(mm, imm) ==
    Pop([mm EXCEPT !.mem = Store64(@, mm.rsp + imm \div 4, Top64(mm))])

\* pop rax; mov [rsp + 8 * OPERAND()], rax
NativeSet(mm, imm) ==
    LET rax == Top64(mm)
        m1 == Pop(mm)
    IN  [m1 EXCEPT !.mem = Store64(@, m1.rsp + imm \div 4, rax)]

\* pop rcx; pop rax; cmp rax, rcx; jg >1; je >2; push -1 / push 1 / push 0
NativeCmp(mm) ==
    LET rcx == Top64(mm)
        rax == Top64(Pop(mm))
        res == IF SLt64(rcx, rax) THEN 1 ELSE IF rax = rcx THEN 0 ELSE -1
    IN  Push(Pop(Pop(mm)), SignExt64(res))

\* pop rax; test rax, rax; jg => offset
NativeJgtTaken(mm) == SLt64(<<0, 0>>, Top64(mm))

NativeJgt(mm) == Pop(mm)

\* NativeHalt without mov rsp, rbp: the pops take what the program left
NativeHaltNoReset(mm) ==
    LET m2 == [Pop(mm) EXCEPT !.rbp = Top64(mm)]
        m3 == [Pop(m2) EXCEPT !.rbx = Top64(m2)]
    IN  Pop(m3)

\* mov rsp, rbp; pop rbp; pop rbx; ret
NativeHalt(mm) ==
    LET m1 == [mm EXCEPT !.rsp = mm.rbp[2]]
        m2 == [Pop(m1) EXCEPT !.rbp = Top64(m1)]
        m3 == [Pop(m2) EXCEPT !.rbx = Top64(m2)]
    IN  Pop(m3)

NativeHaltTarget(mm) == Load64(mm.mem, mm.rbp[2] + 4)

\* the values on the bytecode stack, bottom first: the qwords below rbp
NativeStack(mm) ==
    [i \in 1..((mm.rbp[2] - mm.rsp) \div 2) |-> Load64(mm.mem, mm.rbp[2] - 2 * i)]

(***************************************************************************)
(* src/unnamed/part_001: the templates, on the stack area addressed by r12 *)
(* (.type STACK, int, r12 and .type INPUT, int, rbx)                       *)
(***************************************************************************)
\* the dword address of STACK[i]
STACK(mm, i) == mm.r12[2] + i

\* add STACK, n * #STACK
BumpStack(mm, n) == [mm EXCEPT !.r12 = <<mm.r12[1], mm.r12[2] + n>>]

\* push rbp; mov rbp, rsp; push INPUT; push STACK; mov INPUT, rdi;
\* sub rsp, 64 * #STACK; mov STACK, rsp
CustomPrologue(mm, rdi) ==
    LET m1 == Push(mm, mm.rbp)
        m2 == [m1 EXCEPT !.rbp = StackPtr(m1.rsp)]
        m3 == Push(m2, m2.rbx)
        m4 == Push(m3, m3.r12)
        m5 == [m4 EXCEPT !.rbx = rdi, !.rsp = @ - CustomSlots]
    IN  [m5 EXCEPT !.r12 = StackPtr(m5.rsp)]

\* mov dword STACK[0], operand; add STACK, #STACK
CustomConstant(mm, imm) ==
    BumpStack([mm EXCEPT !.mem[STACK(mm, 0)] = imm], 1)

\* mov ecx, STACK[-1]; add STACK[-2], ecx; sub STACK, #STACK
CustomAdd(mm) ==
    LET ecx == mm.mem[STACK(mm, -1)]
    IN  BumpStack([mm EXCEPT !.mem[STACK(mm, -2)] = Add32(@, ecx)], -1)

\* mov64 rdi, "%zd\n"; mov esi, STACK[-1]; sub STACK, 4; mov64 rax, printf;
\* call rax
CustomPrintArg(mm) == ZeroExt64(mm.mem[STACK(mm, -1)])

CustomPrint(mm, retip) == CallPrintf(BumpStack(mm, -1), retip)

\* mov eax, INPUT[0]; mov dword STACK[0], eax; add STACK, #STACK;
\* add INPUT, #INPUT
CustomInput(mm, in) ==
    LET eax == InputAt(in, mm.rbx[2])
        m1 == BumpStack([mm EXCEPT !.mem[STACK(mm, 0)] = eax], 1)
    IN  [m1 EXCEPT !.rbx = <<mm.rbx[1], mm.rbx[2] + 1>>]

\* sub STACK, #STACK
CustomDiscard(mm) == BumpStack(mm, -1)

\* mov eax, STACK[-1 - OPERAND()]; mov STACK[0], eax; add STACK, #STACK
CustomGet(mm, imm) ==
    LET eax == mm.mem[STACK(mm, imm)]
    IN  BumpStack([mm EXCEPT !.mem[STACK(mm, 0)] = eax], 1)

\* mov eax, STACK[-1]; sub STACK, #STACK; mov STACK[-1 - OPERAND()], eax
CustomSet(mm, imm) ==
    LET eax == mm.mem[STACK(mm, -1)]
        m1 == BumpStack(mm, -1)
    IN  [m1 EXCEPT !.mem[STACK(m1, imm)] = eax]

\* mov ecx, STACK[-1]; cmp STACK[-2], ecx; jg >1; je >2; mov ecx, -1 / 1 / 0;
\* mov STACK[-2], ecx; sub STACK, #STACK
CustomCmp(mm) ==
    LET ecx == mm.mem[STACK(mm, -1)]
        a == mm.mem[STACK(mm, -2)]
        res == IF a > ecx THEN 1 ELSE IF a = ecx THEN 0 ELSE -1
    IN  BumpStack([mm EXCEPT !.mem[STACK(mm, -2)] = res], -1)

\* mov eax, STACK[-1]; sub STACK, #STACK; test rax, rax; jg => offset
CustomJgtTaken(mm) == SLt64(<<0, 0>>, ZeroExt64(mm.mem[STACK(mm, -1)]))

CustomJgt(mm) == BumpStack(mm, -1)

\* add rsp, 64 * #STACK; pop STACK; pop INPUT; mov rsp, rbp; pop rbp; ret
CustomHalt(mm) ==
    LET m1 == [mm EXCEPT !.rsp = @ + CustomSlots]
        m2 == [Pop(m1) EXCEPT !.r12 = Top64(m1)]
        m3 == [Pop(m2) EXCEPT !.rbx = Top64(m2)]
        m4 == [m3 EXCEPT !.rsp = m3.rbp[2]]
        m5 == [Pop(m4) EXCEPT !.rbp = Top64(m4)]
    IN  Pop(m5)

CustomHaltTarget(mm) == Load64(mm.mem, mm.rbp[2] + 2)

\* the values on the bytecode stack, bottom first: the dwords from rsp to r12
CustomStack(mm) ==
    [i \in 1..(mm.r12[2] - mm.rsp) |-> mm.mem[mm.rsp + i - 1]]

(***************************************************************************)
(* The bytecode machine of the instruction table (enum op), the oracle the *)
(* generated code is compared with: a stack of signed 32-bit integers      *)
(***************************************************************************)
RefInit == [ip |-> 0, stack |-> <<>>, out |-> <<>>, cur |-> 0, halted |-> FALSE]

\* the stack without its n topmost values
DropTop(st, n) == SubSeq(st, 1, Len(st) - n)

\* positive / zero / negative as a is bigger than, equal to, smaller than b
Cmp32(a, b) == IF a > b THEN 1 ELSE IF a = b THEN 0 ELSE -1

RefStep(prog, in, r) ==
    LET op == prog[r.ip + 1]
        n == Len(r.stack)
        st == r.stack
        next == [r EXCEPT !.ip = @ + InstrLen(op)]
    IN  CASE op = OP_CONSTANT ->
                [next EXCEPT !.stack = Append(st, OPERAND(prog, r.ip))]
          [] op = OP_ADD ->
                [next EXCEPT !.stack =
                    Append(DropTop(st, 2), Add32(st[n - 1], st[n]))]
          [] op = OP_PRINT ->
                [next EXCEPT !.stack = DropTop(st, 1), !.out = Append(@, st[n])]
          [] op = OP_INPUT ->
                [next EXCEPT !.stack = Append(st, InputAt(in, r.cur)),
                             !.cur = @ + 1]
          [] op = OP_DISCARD ->
                [next EXCEPT !.stack = DropTop(st, 1)]
          [] op = OP_GET ->
                [next EXCEPT !.stack = Append(st, st[n - OPERAND(prog, r.ip)])]
          [] op = OP_SET ->
                [next EXCEPT !.stack =
                    [DropTop(st, 1) EXCEPT ![n - 1 - OPERAND(prog, r.ip)] = st[n]]]
          [] op = OP_CMP ->
                [next EXCEPT !.stack =
                    Append(DropTop(st, 2), Cmp32(st[n - 1], st[n]))]
          [] op = OP_JGT ->
                IF st[n] > 0
                    THEN [r EXCEPT !.stack = DropTop(st, 1),
                                   !.ip = @ + OPERAND(prog, r.ip)]
                    ELSE [next EXCEPT !.stack = DropTop(st, 1)]
          [] OTHER -> [r EXCEPT !.halted = TRUE]

(***************************************************************************)
(* main, compile and our_dasm_link_and_encode                              *)
(***************************************************************************)
Variants == {"native", "custom"}

NoRegion == [addr |-> 0, perms |-> {}, size |-> 0, bytes |-> <<>>]

NoFirst == [addr |-> 0, bytes |-> <<>>, out |-> <<>>]

NoLast == [op |-> TPL_PROLOGUE, off |-> -1, imm |-> 0, taken |-> FALSE]

\* main before it calls compile, for the pairs <<program, input>> of runs
InitOn(runs) ==
    /\ variant \in Variants
    /\ \E r \in runs : program = r[1] /\ input = r[2]
    /\ phase = "main"
    /\ instrptr = 0
    /\ dasm = NoDasm
    /\ size = 0
    /\ code = "none"
    /\ region = NoRegion
    /\ ip = 0
    /\ m = EntryMachine
    /\ out = <<>>
    /\ ref = RefInit
    /\ last = NoLast
    /\ backJumps = 0
    /\ stderr = <<>>
    /\ round = 1
    /\ first = NoFirst
    /\ nInputs = 0
    /\ threads = <<>>
    /\ shmem = <<>>
    /\ alone = <<>>
    /\ maxRead = -1
    /\ both = <<>>

Init == InitOn(Runs)

\* the template of the prologue; it has no pc label
PrologueTemplate == [op |-> TPL_PROLOGUE, imm |-> 0, lbl |-> -1]

\* compile up to the scan loop: the dasm state is set up, program_len pc
\* labels are reserved and the prologue is put
CompileBegin ==
    /\ phase = "main"
    /\ phase' = "scan"
    /\ dasm' = Put(NewDasm(Len(program)), PrologueTemplate)
    /\ instrptr' = 0
    /\ UNCHANGED <<variant, program, input, size, code, region, maxRead>>
    /\ UNCHANGED runVars
    /\ UNCHANGED auxVars

\* ScanNext stepping over the opcode byte only
ScanNextByte(prog, off) == off + 1

\* ScanNext with a case of HALT that does not end in instrptr += 1
ScanNextStaysAtHalt(prog, off) ==
    IF prog[off + 1] = OP_HALT THEN off ELSE off + InstrLen(prog[off + 1])

\* ScanNext with a default case that steps over a byte that is no opcode
ScanNextSkipsUnknown(prog, off) ==
    IF prog[off + 1] \in Opcodes THEN off + InstrLen(prog[off + 1]) ELSE off + 1

\* instrptr += 1 or instrptr += 5 at the end of the case of the opcode; the
\* switch has no default, a byte that is no opcode leaves instrptr as it is
ScanNext(prog, off) ==
    IF prog[off + 1] \in Opcodes THEN off + InstrLen(prog[off + 1]) ELSE off

\* the indices of program[] the iteration at offset off reads: the opcode
\* *instrptr and, in the cases that use OPERAND(), instrptr[1] .. instrptr[4]
ReadsOf(prog, off) ==
    {off} \cup (IF HasOperand(prog[off + 1]) THEN (off + 1)..(off + 4) ELSE {})

\* values of a byte found in the memory behind the program
PastEndBytes == {0, 255}

\* what the memory behind the program can hold where the iteration at offset
\* off reads it: nothing is read there unless an operand is cut short by the
\* end of the program, and then the bytes are whatever lies behind the array
PastEnd(prog, off) ==
    LET over == {i \in ReadsOf(prog, off) : i >= Len(prog)}
    IN  [1..Cardinality(over) -> PastEndBytes]

\* one iteration of while (instrptr < end): the pc label of the offset is
\* put, then the template of the opcode; a byte that is no opcode matches no
\* case of the switch. OPERAND() reads four bytes whether or not the program
\* has them: a read behind the end finds some bytes there, or faults
ScanInstr ==
    /\ phase = "scan"
    /\ instrptr < Len(program)
    /\ maxRead' = LET seen == ReadsOf(program, instrptr) \cup {maxRead}
                  IN  CHOOSE i \in seen : \A j \in seen : j <= i
    /\ \E tail \in PastEnd(program, instrptr) :
       \E fault \in (IF tail = <<>> THEN {FALSE} ELSE BOOLEAN) :
          LET op == program[instrptr + 1]
              d1 == DefineLabel(dasm, instrptr)
          IN  IF fault
                 THEN /\ phase' = "segv"
                      /\ dasm' = d1
                      /\ instrptr' = instrptr
                 ELSE /\ phase' = "scan"
                      /\ dasm' = IF op \in Opcodes
                                    THEN Put(d1, Template(variant, program \o tail,
                                                          instrptr))
                                    ELSE d1
                      /\ instrptr' = ScanNext(program, instrptr)
    /\ UNCHANGED <<variant, program, input, size, code, region>>
    /\ UNCHANGED runVars
    /\ UNCHANGED auxVars

\* the pc labels the put templates refer to
Referenced(d) ==
    {d.actions[i].imm : i \in {j \in 1..Len(d.actions) : d.actions[j].op = OP_JGT}}

\* dasm_link succeeds when no put failed and every referenced label is defined
LinkOk(d) ==
    /\ d.status = "OK"
    /\ \A n \in Referenced(d) : d.pclabels[n] # 0

\* the size dasm_link reports, counted in templates
LinkSize(d) == Len(d.actions)

\* what a failed assert writes before it calls abort: the source line and the
\* text of the expression; the value the expression compared is not in it
AssertMessage(line, expr) == [line |-> line, expr |-> expr]

\* our_dasm_link_and_encode: assert(dasm_checkstep(Dst, 0) == DASM_S_OK)
CheckStep ==
    /\ phase = "scan"
    /\ instrptr >= Len(program)
    /\ IF dasm.status = "OK"
          THEN phase' = "link" /\ stderr' = stderr
          ELSE /\ phase' = "aborted"
               /\ stderr' = Append(stderr,
                     AssertMessage(361, "dasm_checkstep(Dst, 0) == DASM_S_OK"))
    /\ UNCHANGED <<variant, program, input, round, first, nInputs>>
    /\ UNCHANGED thrVars
    /\ UNCHANGED compileVars
    /\ UNCHANGED runVars

\* assert(dasm_link(Dst, &size) == DASM_S_OK)
Link ==
    /\ phase = "link"
    /\ IF LinkOk(dasm)
          THEN phase' = "mmap" /\ size' = LinkSize(dasm) /\ stderr' = stderr
          ELSE /\ phase' = "aborted"
               /\ size' = size
               /\ stderr' = Append(stderr,
                     AssertMessage(362, "dasm_link(Dst, &size) == DASM_S_OK"))
    /\ UNCHANGED <<variant, program, input, instrptr, dasm, code, region, maxRead>>
    /\ UNCHANGED <<round, first, nInputs>>
    /\ UNCHANGED thrVars
    /\ UNCHANGED runVars

\* MmapProt with the pages executable from the start
MmapProtExec == {"R", "W", "X"}

\* the protection mmap is asked for: PROT_READ | PROT_WRITE
MmapProt == {"R", "W"}

\* MmapLen asking for one unit more than dasm_link reported
MmapLenMore(sz) == sz + 1

\* the length mmap is asked for: size, as dasm_link stored it
MmapLen(sz) == sz

\* MmapAddr handing out the same address every time
MmapAddrSame(held) == 1

\* mmap(0, ...): the kernel picks an address that is not mapped; the region of
\* an earlier compile is never unmapped, so its address is still held
MmapAddr(held) == CHOOSE a \in 1..(Cardinality(held) + 1) : a \notin held

\* code = mmap(0, size, PROT_READ | PROT_WRITE, ...): pages, or MAP_FAILED
Mmap ==
    /\ phase = "mmap"
    /\ phase' = "encode"
    /\ \E ok \in BOOLEAN :
          IF ok
             THEN /\ code' = "region"
                  /\ region' = [addr |-> MmapAddr({first.addr} \ {0}),
                                 perms |-> MmapProt, size |-> MmapLen(size),
                                 bytes |-> <<>>]
             ELSE /\ code' = "MAP_FAILED"
                  /\ region' = region
    /\ UNCHANGED <<variant, program, input, instrptr, dasm, size, maxRead>>
    /\ UNCHANGED runVars
    /\ UNCHANGED auxVars

\* the bytes dasm_encode writes: every template, its label reference resolved
\* to the position the label was defined at
Encoded(d) ==
    [i \in 1..Len(d.actions) |->
        [op |-> d.actions[i].op,
         imm |-> d.actions[i].imm,
         off |-> d.actions[i].lbl,
         target |-> IF d.actions[i].op = OP_JGT
                       THEN d.pclabels[d.actions[i].imm] ELSE 0]]

\* assert(dasm_encode(Dst, code) == DASM_S_OK): the write goes to code, which
\* nothing has compared with MAP_FAILED
Encode ==
    /\ phase = "encode"
    /\ IF code = "region" /\ "W" \in region.perms
          THEN /\ phase' = "mprotect"
               /\ region' = [region EXCEPT !.bytes = Encoded(dasm)]
          ELSE /\ phase' = "segv"
               /\ region' = region
    /\ UNCHANGED <<variant, program, input, instrptr, dasm, size, code, maxRead>>
    /\ UNCHANGED runVars
    /\ UNCHANGED auxVars

\* the protection mprotect is asked for: PROT_READ | PROT_EXEC
MprotectProt == {"R", "X"}

\* mprotect(code, size, PROT_READ | PROT_EXEC); its result is not looked at
Mprotect ==
    /\ phase = "mprotect"
    /\ phase' = "encoded"
    /\ \E ok \in BOOLEAN :
          region' = IF ok THEN [region EXCEPT !.perms = MprotectProt] ELSE region
    /\ UNCHANGED <<variant, program, input, instrptr, dasm, size, code, maxRead>>
    /\ UNCHANGED runVars
    /\ UNCHANGED auxVars

\* CompileReturn without dasm_free(Dst)
CompileReturnKeepsDasm ==
    /\ phase = "encoded"
    /\ phase' = "compiled"
    /\ UNCHANGED <<variant, program, input, instrptr, dasm, size, code, region,
                   maxRead>>
    /\ UNCHANGED runVars
    /\ UNCHANGED auxVars

\* return code; back in compile: dasm_free(Dst); return code
CompileReturn ==
    /\ phase = "encoded"
    /\ phase' = "compiled"
    /\ dasm' = NoDasm
    /\ UNCHANGED <<variant, program, input, instrptr, size, code, region, maxRead>>
    /\ UNCHANGED runVars
    /\ UNCHANGED auxVars

\* fun(input): control enters the region, which has to be executable
Call ==
    /\ phase = "compiled"
    /\ IF "X" \in region.perms
          THEN phase' = "run" /\ ip' = 1
          ELSE phase' = "segv" /\ ip' = ip
    /\ m' = EntryMachine
    /\ UNCHANGED <<variant, program, input, out, ref, last, backJumps>>
    /\ UNCHANGED compileVars
    /\ UNCHANGED auxVars

(***************************************************************************)
(* Execution of the generated code, one template at a time                 *)
(***************************************************************************)
\* the template rip is at
Cur == region.bytes[ip]

AtTemplate(op) ==
    /\ phase = "run"
    /\ ip \in 1..Len(region.bytes)
    /\ Cur.op = op

\* the bytecode machine follows every template of an opcode with one step
RefNext == IF ref.halted THEN ref ELSE RefStep(program, input, ref)

Executed(taken) ==
    [op |-> Cur.op, off |-> Cur.off, imm |-> Cur.imm, taken |-> taken]

\* what a template leaves alone when it falls through to the next one
FallThrough ==
    /\ ip' = ip + 1
    /\ last' = Executed(FALSE)
    /\ ref' = RefNext
    /\ UNCHANGED <<variant, program, input, phase, backJumps>>
    /\ UNCHANGED compileVars
    /\ UNCHANGED auxVars

ExecPrologue ==
    /\ AtTemplate(TPL_PROLOGUE)
    /\ m' = IF variant = "native" THEN NativePrologue(m, InputPtr(0))
                                 ELSE CustomPrologue(m, InputPtr(0))
    /\ ip' = ip + 1
    /\ last' = Executed(FALSE)
    /\ UNCHANGED <<variant, program, input, phase, out, ref, backJumps>>
    /\ UNCHANGED compileVars
    /\ UNCHANGED auxVars

ExecConstant ==
    /\ AtTemplate(OP_CONSTANT)
    /\ m' = IF variant = "native" THEN NativeConstant(m, Cur.imm)
                                 ELSE CustomConstant(m, Cur.imm)
    /\ out' = out
    /\ FallThrough

ExecAdd ==
    /\ AtTemplate(OP_ADD)
    /\ m' = IF variant = "native" THEN NativeAdd(m) ELSE CustomAdd(m)
    /\ out' = out
    /\ FallThrough

ExecPrint ==
    /\ AtTemplate(OP_PRINT)
    /\ out' = Append(out, IF variant = "native" THEN NativePrintArg(m)
                                                ELSE CustomPrintArg(m))
    /\ m' = IF variant = "native" THEN NativePrint(m, ip + 1)
                                 ELSE CustomPrint(m, ip + 1)
    /\ FallThrough

ExecInput ==
    /\ AtTemplate(OP_INPUT)
    /\ m' = IF variant = "native" THEN NativeInput(m, input)
                                 ELSE CustomInput(m, input)
    /\ out' = out
    /\ nInputs' = nInputs + 1
    /\ ip' = ip + 1
    /\ last' = Executed(FALSE)
    /\ ref' = RefNext
    /\ UNCHANGED <<variant, program, input, phase, backJumps>>
    /\ UNCHANGED <<stderr, round, first>>
    /\ UNCHANGED thrVars
    /\ UNCHANGED compileVars

ExecDiscard ==
    /\ AtTemplate(OP_DISCARD)
    /\ m' = IF variant = "native" THEN NativeDiscard(m) ELSE CustomDiscard(m)
    /\ out' = out
    /\ FallThrough

ExecGet ==
    /\ AtTemplate(OP_GET)
    /\ m' = IF variant = "native" THEN NativeGet(m, Cur.imm)
                                 ELSE CustomGet(m, Cur.imm)
    /\ out' = out
    /\ FallThrough

ExecSet ==
    /\ AtTemplate(OP_SET)
    /\ m' = IF variant = "native" THEN NativeSet(m, Cur.imm)
                                 ELSE CustomSet(m, Cur.imm)
    /\ out' = out
    /\ FallThrough

ExecCmp ==
    /\ AtTemplate(OP_CMP)
    /\ m' = IF variant = "native" THEN NativeCmp(m) ELSE CustomCmp(m)
    /\ out' = out
    /\ FallThrough

\* whether the jg of the JGT template at rip jumps
JgtTaken == IF variant = "native" THEN NativeJgtTaken(m) ELSE CustomJgtTaken(m)

ExecJgt ==
    /\ AtTemplate(OP_JGT)
    /\ JgtTaken /\ Cur.target <= ip => backJumps < MaxBackJumps
    /\ m' = IF variant = "native" THEN NativeJgt(m) ELSE CustomJgt(m)
    /\ ip' = IF JgtTaken THEN Cur.target ELSE ip + 1
    /\ backJumps' = IF JgtTaken /\ Cur.target <= ip THEN backJumps + 1
                                                    ELSE backJumps
    /\ last' = Executed(JgtTaken)
    /\ ref' = RefNext
    /\ UNCHANGED <<variant, program, input, phase, out>>
    /\ UNCHANGED compileVars
    /\ UNCHANGED auxVars

\* ExecHalt for a HALT template that is empty: control falls through to the
\* template that follows
ExecHaltFallsThrough ==
    /\ AtTemplate(OP_HALT)
    /\ m' = m
    /\ out' = out
    /\ FallThrough

\* the epilogue: ret continues at the address it pops
ExecHalt ==
    /\ AtTemplate(OP_HALT)
    /\ m' = IF variant = "native" THEN NativeHalt(m) ELSE CustomHalt(m)
    /\ phase' = IF (IF variant = "native" THEN NativeHaltTarget(m)
                                          ELSE CustomHaltTarget(m)) = ReturnAddress
                   THEN "returned" ELSE "segv"
    /\ ip' = 0
    /\ last' = Executed(FALSE)
    /\ ref' = RefNext
    /\ UNCHANGED <<variant, program, input, out, backJumps>>
    /\ UNCHANGED compileVars
    /\ UNCHANGED auxVars

\* a caller that, after the generated function has returned, calls compile
\* on the same program again and runs the result on the same input; the first
\* region stays mapped
CompileAgain ==
    /\ phase = "returned"
    /\ round = 1
    /\ round' = 2
    /\ first' = [addr |-> region.addr, bytes |-> region.bytes, out |-> out]
    /\ phase' = "main"
    /\ instrptr' = 0
    /\ size' = 0
    /\ code' = "none"
    /\ region' = NoRegion
    /\ ip' = 0
    /\ m' = EntryMachine
    /\ out' = <<>>
    /\ ref' = RefInit
    /\ last' = NoLast
    /\ backJumps' = 0
    /\ nInputs' = 0
    /\ maxRead' = -1
    /\ UNCHANGED <<variant, program, input, dasm, stderr>>
    /\ UNCHANGED thrVars

Next ==
    \/ CompileBegin
    \/ ScanInstr
    \/ CheckStep
    \/ Link
    \/ Mmap
    \/ Encode
    \/ Mprotect
    \/ CompileReturn
    \/ Call
    \/ ExecPrologue
    \/ ExecConstant
    \/ ExecAdd
    \/ ExecPrint
    \/ ExecInput
    \/ ExecDiscard
    \/ ExecGet
    \/ ExecSet
    \/ ExecCmp
    \/ ExecJgt
    \/ ExecHalt

Spec == Init /\ [][Next]_vars

(***************************************************************************)
(* Two invocations of one generated function on two threads                *)
(***************************************************************************)
\* what the template t does to the machine mm of an invocation whose input
\* is in: the machine after it, what it prints, whether its jg jumps, and
\* for HALT whether ret finds the caller's return address
TemplateStep(v, t, mm, in, retip) ==
    LET nat == v = "native"
        r(mach, pr, jmp, ok) == [m |-> mach, print |-> pr, jump |-> jmp, ret |-> ok]
    IN  CASE t.op = TPL_PROLOGUE ->
                r(IF nat THEN NativePrologue(mm, InputPtr(0))
                         ELSE CustomPrologue(mm, InputPtr(0)), <<>>, FALSE, FALSE)
          [] t.op = OP_CONSTANT ->
                r(IF nat THEN NativeConstant(mm, t.imm)
                         ELSE CustomConstant(mm, t.imm), <<>>, FALSE, FALSE)
          [] t.op = OP_ADD ->
                r(IF nat THEN NativeAdd(mm) ELSE CustomAdd(mm), <<>>, FALSE, FALSE)
          [] t.op = OP_PRINT ->
                r(IF nat THEN NativePrint(mm, retip) ELSE CustomPrint(mm, retip),
                  <<IF nat THEN NativePrintArg(mm) ELSE CustomPrintArg(mm)>>,
                  FALSE, FALSE)
          [] t.op = OP_INPUT ->
                r(IF nat THEN NativeInput(mm, in) ELSE CustomInput(mm, in),
                  <<>>, FALSE, FALSE)
          [] t.op = OP_DISCARD ->
                r(IF nat THEN NativeDiscard(mm) ELSE CustomDiscard(mm),
                  <<>>, FALSE, FALSE)
          [] t.op = OP_GET ->
                r(IF nat THEN NativeGet(mm, t.imm) ELSE CustomGet(mm, t.imm),
                  <<>>, FALSE, FALSE)
          [] t.op = OP_SET ->
                r(IF nat THEN NativeSet(mm, t.imm) ELSE CustomSet(mm, t.imm),
                  <<>>, FALSE, FALSE)
          [] t.op = OP_CMP ->
                r(IF nat THEN NativeCmp(mm) ELSE CustomCmp(mm), <<>>, FALSE, FALSE)
          [] t.op = OP_JGT ->
                r(IF nat THEN NativeJgt(mm) ELSE CustomJgt(mm), <<>>,
                  IF nat THEN NativeJgtTaken(mm) ELSE CustomJgtTaken(mm), FALSE)
          [] t.op = OP_HALT ->
                r(IF nat THEN NativeHalt(mm) ELSE CustomHalt(mm), <<>>, FALSE,
                  (IF nat THEN NativeHaltTarget(mm) ELSE CustomHaltTarget(mm))
                      = ReturnAddress)

\* the memory with the stacks of both threads, one after the other, and the
\* machine of thread t when its caller executes call
ThreadEntry(t) ==
    [EntryMachine EXCEPT
        !.rsp = EntryRsp + (t - 1) * MemDwords,
        !.mem = [a \in 0..(2 * MemDwords - 1) |-> EntryMachine.mem[a % MemDwords]]]

\* the input streams of the two threads
ThreadInputs ==
    IF program = MainProgram THEN << <<2, 3>>, <<4, 2>> >>
    ELSE << <<3>>, <<2>> >>

\* both threads call the generated function, each with its own input stream
\* and its own stack
Spawn ==
    /\ phase = "compiled"
    /\ "X" \in region.perms
    /\ phase' = "threads"
    /\ shmem' = ThreadEntry(1).mem
    /\ threads' = [t \in 1..2 |->
                     [ip |-> 1, regs |-> [ThreadEntry(t) EXCEPT !.mem = <<>>],
                      in |-> ThreadInputs[t], out |-> <<>>, done |-> FALSE]]
    /\ alone' = [t \in 1..2 |->
                   [ip |-> 1, m |-> ThreadEntry(t), out |-> <<>>, done |-> FALSE]]
    /\ UNCHANGED <<variant, program, input, stderr, round, first, nInputs, both>>
    /\ UNCHANGED compileVars
    /\ UNCHANGED runVars

\* thread t executes the template at its rip on the shared memory; the same
\* invocation run alone executes its next template on a memory of its own
ThreadStep(t) ==
    /\ phase = "threads"
    /\ ~threads[t].done
    /\ LET th == threads[t]
           al == alone[t]
           st == TemplateStep(variant, region.bytes[th.ip],
                              [th.regs EXCEPT !.mem = shmem], th.in, th.ip + 1)
           sa == TemplateStep(variant, region.bytes[al.ip], al.m, th.in, al.ip + 1)
           nextip(cur, s) ==
               IF region.bytes[cur].op = OP_JGT /\ s.jump
                  THEN region.bytes[cur].target ELSE cur + 1
       IN  /\ shmem' = st.m.mem
           /\ threads' = [threads EXCEPT ![t] =
                 [th EXCEPT !.regs = [st.m EXCEPT !.mem = <<>>],
                            !.out = @ \o st.print,
                            !.ip = nextip(th.ip, st),
                            !.done = region.bytes[th.ip].op = OP_HALT]]
           /\ alone' = [alone EXCEPT ![t] =
                 IF al.done THEN al
                 ELSE [al EXCEPT !.m = sa.m,
                                 !.out = @ \o sa.print,
                                 !.ip = nextip(al.ip, sa),
                                 !.done = region.bytes[al.ip].op = OP_HALT]]
    /\ UNCHANGED <<variant, program, input, phase, stderr, round, first,
                   nInputs, both>>
    /\ UNCHANGED compileVars
    /\ UNCHANGED runVars

InitThreads ==
    InitOn({<<MainProgram, <<2, 3>>>>, <<CountdownProgram, <<3>>>>})

NextThreads ==
    \/ CompileBegin
    \/ ScanInstr
    \/ CheckStep
    \/ Link
    \/ Mmap
    \/ Encode
    \/ Mprotect
    \/ CompileReturn
    \/ Spawn
    \/ \E t \in 1..2 : ThreadStep(t)

SpecThreads == InitThreads /\ [][NextThreads]_vars

\* compile called twice on the same program
InitTwice == InitOn(TwiceRuns)

NextTwice == Next \/ CompileAgain

SpecTwice == InitTwice /\ [][NextTwice]_vars

(***************************************************************************)
(* compile as a running process: the call of compile on a well-formed      *)
(* program, every step of which is taken once it can be                    *)
(***************************************************************************)
\* main before it calls compile, for main's program, the countdown and the
\* generated programs
InitScan ==
    InitOn({<<p, <<>>>> : p \in {MainProgram, CountdownProgram} \cup GenPrograms})

NextCompile ==
    \/ CompileBegin
    \/ ScanInstr
    \/ CheckStep
    \/ Link
    \/ Mmap
    \/ Encode
    \/ Mprotect
    \/ CompileReturn

\* compile is straight-line code and one loop on one thread, nothing it
\* waits for: the statement it stands at is executed
SpecScan == InitScan /\ [][NextCompile]_vars /\ WF_vars(NextCompile)

(***************************************************************************)
(* The code of src/src/demo.c and the code of src/unnamed/part_001 for one *)
(* program, called on the same input                                       *)
(***************************************************************************)
\* the scan loop of compile as a function: the dasm state after the
\* iterations from offset off on (for programs whose scan ends)
RECURSIVE ScanAll(_, _, _, _)
ScanAll(v, prog, off, d) ==
    IF off >= Len(prog) THEN d
    ELSE ScanAll(v, prog, ScanNext(prog, off),
                 Put(DefineLabel(d, off), Template(v, prog, off)))

\* the code the compile of variant v encodes for a program
Compiled(v, prog) ==
    Encoded(ScanAll(v, prog, 0, Put(NewDasm(Len(prog)), PrologueTemplate)))

\* main calls the code compile returned, and the code the compile of the
\* other variant gives for the same program, each on the input stream and
\* on a stack of its own
CallBoth ==
    /\ phase = "compiled"
    /\ "X" \in region.perms
    /\ phase' = "both"
    /\ both' = [v \in Variants |->
                  [bytes |-> IF v = variant THEN region.bytes
                                            ELSE Compiled(v, program),
                   ip |-> 1, m |-> EntryMachine, out |-> <<>>,
                   done |-> FALSE, jumps |-> 0]]
    /\ UNCHANGED <<variant, program, input, stderr, round, first, nInputs,
                   threads, shmem, alone>>
    /\ UNCHANGED compileVars
    /\ UNCHANGED runVars

\* the invocation b of variant v after the template at its rip; an invocation
\* that has returned, or has taken MaxBackJumps backward jumps and is about
\* to take one more, stays as it is
StepOf(v, b) ==
    LET t == b.bytes[b.ip]
        st == TemplateStep(v, t, b.m, input, b.ip + 1)
        jump == t.op = OP_JGT /\ st.jump
        back == jump /\ t.target <= b.ip
    IN  IF b.done \/ (back /\ b.jumps >= MaxBackJumps) THEN b
        ELSE [b EXCEPT !.m = st.m,
                       !.out = @ \o st.print,
                       !.ip = IF jump THEN t.target ELSE b.ip + 1,
                       !.done = t.op = OP_HALT,
                       !.jumps = IF back THEN @ + 1 ELSE @]

\* each of the two invocations executes the template at its rip
StepBoth ==
    /\ phase = "both"
    /\ both' = [v \in Variants |-> StepOf(v, both[v])]
    /\ both' # both
    /\ UNCHANGED <<variant, program, input, phase, stderr, round, first,
                   nInputs, threads, shmem, alone>>
    /\ UNCHANGED compileVars
    /\ UNCHANGED runVars

\* main before it calls compile, for the programs that link
InitBoth == InitOn(Runs) /\ program \notin BadJumpPrograms

NextBoth == NextCompile \/ CallBoth \/ StepBoth

SpecBoth == InitBoth /\ [][NextBoth]_vars

(***************************************************************************)
(* Programs that fill the stack area of src/unnamed/part_001               *)
(***************************************************************************)
\* n times INPUT, then HALT: balanced, no offsets, no jumps, depth n
DeepProgram(n) == [i \in 1..(n + 1) |-> IF i <= n THEN OP_INPUT ELSE OP_HALT]

\* depths that fill the area, exceed it by one slot, and by the eight slots
\* of the three saved registers and the return address
DeepDepths == {CustomSlots, CustomSlots + 1, CustomSlots + 8}

NextDeep ==
    \/ NextCompile
    \/ Call
    \/ ExecPrologue
    \/ ExecInput
    \/ ExecHalt

\* main of src/unnamed/part_001 before it calls compile
InitDeep ==
    /\ InitOn({<<DeepProgram(n), <<7>>>> : n \in DeepDepths})
    /\ variant = "custom"

SpecDeep == InitDeep /\ [][NextDeep]_vars

(***************************************************************************)
(* compile called on any byte sequence: compile takes a pointer and a      *)
(* length and checks nothing about the bytes                               *)
(***************************************************************************)
\* bytes of a program handed to compile
MaxBytes == 5

\* the values of a byte: opcodes with an operand (CONSTANT, GET, JGT) and
\* without (HALT), the smallest and the largest value that is no opcode
AnyBytes == {OP_CONSTANT, OP_GET, OP_JGT, OP_HALT, OP_HALT + 1, 255}

\* main before it calls compile on a sequence of 1 to MaxBytes bytes
InitAny ==
    InitOn(UNION { {<<prog, <<>>>> : prog \in [1..n -> AnyBytes]} : n \in 1..MaxBytes })

SpecAny == InitAny /\ [][NextCompile]_vars

(***************************************************************************)
(* Views of the state the properties are stated on                         *)
(***************************************************************************)
\* the slots of the bytecode stack, bottom first, as the machine holds them
VmStack == IF variant = "native" THEN NativeStack(m) ELSE CustomStack(m)

\* the 32-bit value of a slot: the low dword of a qword slot of demo.c
Val32(slot) == IF variant = "native" THEN slot[2] ELSE slot

\* the bytecode stack as 32-bit signed integers
VmStack32 == [i \in 1..Len(VmStack) |-> Val32(VmStack[i])]

\* what printf("%zd\n") prints for the 32-bit signed integer v
Printed(v) == SignExt64(v)

\* the byte offsets at which the instructions of a program start
RECURSIVE StartsFrom(_, _)
StartsFrom(prog, off) ==
    IF off >= Len(prog) \/ prog[off + 1] \notin Opcodes THEN {}
    ELSE {off} \cup StartsFrom(prog, off + InstrLen(prog[off + 1]))

InstrStarts(prog) == StartsFrom(prog, 0)

\* every JGT of the program targets the start of one of its instructions
JumpsToInstrs(prog) ==
    \A o \in InstrStarts(prog) :
        prog[o + 1] = OP_JGT => (o + OPERAND(prog, o)) \in InstrStarts(prog)

\* the bytecode stack depth at offset to, counted along the instructions from
\* offset from (in a well-formed program every path to an instruction gives
\* the same depth)
RECURSIVE StaticDepth(_, _, _)
StaticDepth(prog, from, to) ==
    IF from >= to THEN 0
    ELSE StackEffect(prog[from + 1])
         + StaticDepth(prog, from + InstrLen(prog[from + 1]), to)

\* the offset at which the scan from offset off comes to a byte that is no
\* opcode, -1 if it comes to none
RECURSIVE UnknownAt(_, _)
UnknownAt(prog, off) ==
    IF off >= Len(prog) THEN -1
    ELSE IF prog[off + 1] \notin Opcodes THEN off
    ELSE UnknownAt(prog, off + InstrLen(prog[off + 1]))

\* the operand of the bytecode instruction the template at rip was made from
CurOperand == OPERAND(program, Cur.off)

(***************************************************************************)
(* Properties                                                              *)
(***************************************************************************)
\* C1: for every well-formed program and input stream, the generated code
\* prints exactly what the bytecode machine of the instruction table prints:
\* when both have halted, the printed sequences are the same.
C1_OutputMatchesSemantics ==
    (phase = "returned" /\ ref.halted) =>
        out = [i \in 1..Len(ref.out) |-> Printed(ref.out[i])]

\* C2: the program of main run on (4, 5) prints exactly 20 and returns, and
\* run on (0, 7) prints exactly 0 and returns: nothing else is ever printed,
\* and on return the output is the one line.
C2_MainMultiplies ==
    \A run \in { <<<<4, 5>>, 20>>, <<<<0, 7>>, 0>> } :
        (program = MainProgram /\ input = run[1]) =>
            /\ out \in { <<>>, <<Printed(run[2])>> }
            /\ phase = "returned" => out = <<Printed(run[2])>>
            /\ phase = "segv" => "X" \notin region.perms

C2_Witness ==
    /\ program = MainProgram
    /\ input = <<4, 5>>
    /\ phase = "returned"
    /\ out = <<Printed(20)>>
    /\ backJumps = 4

\* C3: the program of main run on (6, -3) prints exactly -18 and returns, the
\* loop test handling signed values: nothing but -18 is printed, and the JGT
\* that closes the loop jumps back only while the counter (the second slot)
\* is positive as a signed 32-bit integer.
C3_MainSigned ==
    (program = MainProgram /\ input = <<6, -3>>) =>
        /\ out \in { <<>>, <<Printed(-18)>> }
        /\ phase = "returned" => out = <<Printed(-18)>>
        /\ (phase = "run" /\ last.op = OP_JGT) =>
              (last.taken <=> VmStack32[2] > 0)

\* C4: the CMP template pops b and a and pushes +1, 0 or -1 as a > b, a = b
\* or a < b as signed 32-bit integers, whatever instruction pushed a and b.
C4_CmpSigned32 ==
    [][AtTemplate(OP_CMP) =>
          LET n == Len(VmStack32)
          IN  VmStack32' =
                 Append(DropTop(VmStack32, 2), Cmp32(VmStack32[n - 1], VmStack32[n]))
      ]_vars

\* C5: the JGT template pops a and continues at the instruction at offset
\* (start of the JGT + operand) if and only if a > 0 as a signed 32-bit
\* integer; otherwise at the instruction after the JGT.
C5_JgtSigned32 ==
    [][AtTemplate(OP_JGT) =>
          LET a == VmStack32[Len(VmStack32)]
          IN  /\ VmStack32' = DropTop(VmStack32, 1)
              /\ IF a > 0 THEN region.bytes[ip'].off = Cur.off + CurOperand
                          ELSE ip' = ip + 1
      ]_vars

\* C6: GET k pushes a copy of the slot k below the top and changes no other
\* slot; SET k pops the top and stores it in the slot k below the new top,
\* and every other slot keeps its value.
C6_GetSetFrame ==
    [][LET n == Len(VmStack)
       IN  /\ AtTemplate(OP_GET) =>
                 VmStack' = Append(VmStack, VmStack[n - CurOperand])
           /\ AtTemplate(OP_SET) =>
                 VmStack' = [DropTop(VmStack, 1) EXCEPT ![n - 1 - CurOperand] = VmStack[n]]
      ]_vars

C6_Witness ==
    /\ program = MainProgram
    /\ input = <<4, 5>>
    /\ phase = "run"
    /\ last.op = OP_SET
    /\ last.off = 34
    /\ VmStack32 = <<4, 4, 4>>

\* C7: when every JGT targets the start of an instruction, linking succeeds,
\* and a taken jump continues at the template of the instruction at offset
\* (start of the JGT + operand), for negative and for positive operands.
C7_JumpsResolve ==
    JumpsToInstrs(program) =>
        /\ phase # "aborted"
        /\ (phase = "run" /\ last.op = OP_JGT /\ last.taken) =>
              Cur.off = last.off + OPERAND(program, last.off)

\* the countdown on 3 has taken its forward jump (+6) and is back at the head
\* of its loop through the backward jump (-11)
C7_Witness ==
    /\ program = CountdownProgram
    /\ input = <<3>>
    /\ phase = "run"
    /\ last.op = OP_JGT
    /\ last.taken
    /\ last.off = 23
    /\ OPERAND(program, last.off) < 0
    /\ OPERAND(program, 6) > 0
    /\ Cur.off = 12

\* C8: the code region is never writable and executable at once: it is
\* read/write from mmap until mprotect, and read/execute while it is run.
C8_WriteXorExecute ==
    /\ ~({"W", "X"} \subseteq region.perms)
    /\ (code = "region" /\ phase \in {"encode", "mprotect"}) =>
          region.perms = {"R", "W"}
    /\ phase \in {"run", "returned"} => region.perms = {"R", "X"}

C8_Witness ==
    /\ phase = "run"
    /\ region.perms = {"R", "X"}
    /\ Len(region.bytes) = region.size
    /\ ip > 1

\* C9: whenever our_dasm_link_and_encode has returned a pointer, the region
\* is executable and not writable, and stays so.
C9_ReturnedIsExecutable ==
    phase \in {"compiled", "run", "returned", "segv"} /\ code = "region" =>
        region.perms = {"R", "X"}

\* C10: when mmap or mprotect fails, compilation fails: nothing is encoded
\* into an invalid region, no pointer is returned and the code is not called.
C10_FailureIsFatal ==
    /\ code = "MAP_FAILED" => phase \in {"encode", "aborted"}
    /\ (code = "region" /\ "X" \notin region.perms) =>
          phase \in {"encode", "mprotect", "encoded", "aborted"}

\* the offsets a report about an undefined jump target could name: the start
\* of a JGT whose target is no instruction start, or that target
UndefinedJumps(prog) ==
    UNION { {o, o + OPERAND(prog, o)} :
              o \in {s \in InstrStarts(prog) :
                        /\ prog[s + 1] = OP_JGT
                        /\ (s + OPERAND(prog, s)) \notin InstrStarts(prog)} }

\* C11: when a JGT refers to a label that is never defined, compilation
\* aborts: no region is ever executable, no pointer is returned, and what is
\* reported names the offset of the JGT or of its target.
C11_UndefinedLabelAborts ==
    ~JumpsToInstrs(program) =>
        /\ "X" \notin region.perms
        /\ phase \in {"main", "scan", "link", "aborted"}
        /\ code = "none"
        /\ phase = "aborted" =>
              \E i \in 1..Len(stderr), o \in UndefinedJumps(program) :
                  stderr[i].line = o

\* C12: compiling the same program twice gives two distinct regions with the
\* same code, whose runs on the same input print the same, and the second
\* compile starts from an emission state of its own.
C12_CompileTwice ==
    round = 2 =>
        /\ phase = "scan" => dasm.alive /\ Len(dasm.actions) <= 1 + instrptr
        /\ code = "region" => region.addr # first.addr
        /\ phase \in {"mprotect", "encoded", "compiled", "run", "returned"} =>
              region.bytes = first.bytes
        /\ phase = "returned" => out = first.out

C12_Witness ==
    /\ round = 2
    /\ phase = "returned"
    /\ program = MainProgram
    /\ input = <<4, 5>>
    /\ out = <<Printed(20)>>
    /\ first.out = out
    /\ region.addr = 2
    /\ first.addr = 1

C14_PrintPreserves ==
    [][AtTemplate(OP_PRINT) =>
          /\ m'.rbx = m.rbx
          /\ VmStack' = DropTop(VmStack, 1)
          /\ ip' = ip + 1
      ]_vars

\* main's program on (4, 5) has printed 20, with three values left below it
C14_Witness ==
    /\ program = MainProgram
    /\ input = <<4, 5>>
    /\ phase = "run"
    /\ last.op = OP_PRINT
    /\ out = <<Printed(20)>>
    /\ VmStack32 = <<4, 0, 20>>
    /\ m.rbx = InputPtr(2)

\* C15: every executed PRINT pops one value and prints one line, the signed
\* decimal of that value as a 32-bit signed integer, whatever pushed it.
C15_PrintSigned32 ==
    [][AtTemplate(OP_PRINT) =>
          /\ out' = Append(out, Printed(VmStack32[Len(VmStack32)]))
          /\ Len(VmStack') = Len(VmStack) - 1
      ]_vars

\* C16: at every instruction boundary the execution reaches, the runtime
\* stack holds as many values as the bytecode stack depth of that point, and
\* the instruction changes the number by its stack effect: +1 for CONSTANT,
\* INPUT, GET and -1 for ADD, PRINT, DISCARD, SET, CMP, JGT.
C16_DepthMatches ==
    [][\A op \in Opcodes :
          AtTemplate(op) =>
              /\ Len(VmStack) = StaticDepth(program, 0, Cur.off)
              /\ op # OP_HALT =>
                    Len(VmStack') = Len(VmStack)
                        + (IF op \in {OP_CONSTANT, OP_INPUT, OP_GET} THEN 1 ELSE -1)
      ]_vars

\* the countdown on 3 is back at the head of its loop with one value
C16_Witness ==
    /\ program = CountdownProgram
    /\ input = <<3>>
    /\ phase = "run"
    /\ last.op = OP_JGT
    /\ last.taken
    /\ Cur.off = 12
    /\ backJumps = 2
    /\ Len(VmStack) = 1
    /\ StaticDepth(program, 0, 12) = 1

\* C17: the k-th executed INPUT (k = 0, 1, ...) pushes element k of the input
\* stream as its 32-bit value and moves the cursor to element k + 1; no other
\* template moves the cursor, and no step writes the stream.
C17_InputInOrder ==
    [][/\ input' = input
       /\ AtTemplate(OP_INPUT) =>
             /\ VmStack32' = Append(VmStack32, InputAt(input, nInputs))
             /\ m.rbx = InputPtr(nInputs)
             /\ m'.rbx = InputPtr(nInputs + 1)
       /\ (phase = "run" /\ ip > 1 /\ ~AtTemplate(OP_INPUT) /\ ~AtTemplate(OP_HALT)) =>
             m'.rbx = m.rbx
      ]_vars

\* main's program on (4, 5) has read its second element, after the first
C17_Witness ==
    /\ program = MainProgram
    /\ input = <<4, 5>>
    /\ phase = "run"
    /\ last.op = OP_INPUT
    /\ nInputs = 2
    /\ VmStack32 = <<4, 5>>
    /\ m.rbx = InputPtr(2)

\* C18: two invocations of one generated function, interleaved in any way on
\* two threads, each with its own input stream and its own stack, each go
\* through the same templates, hold the same registers and stack contents
\* and print the same values as when they run alone.
C18_ThreadsIndependent ==
    phase = "threads" =>
        \A t \in 1..2 :
            /\ threads[t].out = alone[t].out
            /\ threads[t].ip = alone[t].ip
            /\ threads[t].done = alone[t].done
            /\ threads[t].regs = [alone[t].m EXCEPT !.mem = <<>>]
            /\ \A a \in ((t - 1) * MemDwords)..(t * MemDwords - 1) :
                  shmem[a] = alone[t].m.mem[a]

\* both threads have returned from main's program, one having printed 2 * 3
\* and the other 4 * 2, each computed from its own stream
C18_Witness ==
    /\ phase = "threads"
    /\ program = MainProgram
    /\ threads[1].done /\ threads[2].done
    /\ threads[1].in = <<2, 3>>
    /\ threads[2].in = <<4, 2>>
    /\ threads[1].out = <<Printed(6)>>
    /\ threads[2].out = <<Printed(8)>>

\* C19: a compilation goes through its steps in this order, none left out:
\* all templates are put, then link gives the size, then a read/write region
\* of exactly that size is mapped, then the code is encoded into it, then the
\* region is made read/execute, and only then is it called.
C19_StepOrder ==
    [][/\ phase' # phase =>
             <<phase, phase'>> \in
                 { <<"main", "scan">>, <<"scan", "link">>, <<"link", "mmap">>,
                   <<"mmap", "encode">>, <<"encode", "mprotect">>,
                   <<"mprotect", "encoded">>, <<"encoded", "compiled">>,
                   <<"compiled", "run">>, <<"run", "returned">>,
                   <<"scan", "aborted">>, <<"link", "aborted">>,
                   <<"encode", "segv">>, <<"compiled", "segv">>,
                   <<"run", "segv">> }
       /\ dasm'.actions # dasm.actions => phase' = "scan" \/ phase' = "compiled"
       /\ phase' = "link" =>
             /\ instrptr' = Len(program)
             /\ {dasm'.actions[i].lbl : i \in 2..Len(dasm'.actions)}
                   = InstrStarts(program)
       /\ phase' = "mmap" => size' = LinkSize(dasm')
       /\ (phase' = "encode" /\ code' = "region") =>
             /\ region'.size = size
             /\ region'.perms = {"R", "W"}
             /\ region'.bytes = <<>>
       /\ phase' = "mprotect" =>
             /\ region.perms = {"R", "W"}
             /\ region'.bytes = Encoded(dasm)
             /\ Len(region'.bytes) = region.size
       /\ (phase' = "run" /\ phase # "run") =>
             /\ phase = "compiled"
             /\ region.perms = {"R", "X"}
             /\ region'.bytes = region.bytes /\ region.bytes # <<>>
      ]_vars

\* main's program is being run: the prologue and 18 templates, linked,
\* mapped, encoded
C19_Witness ==
    /\ program = MainProgram
    /\ phase = "run"
    /\ size = 19
    /\ region.size = 19
    /\ Len(region.bytes) = 19
    /\ region.perms = {"R", "X"}
    /\ ip = 1

\* C20: compile reserves exactly program_len pc labels, for the offsets
\* 0..program_len-1, and the scan defines the label of an offset exactly once
\* when an instruction starts there and never when the offset lies inside an
\* operand.
C20_LabelPerInstruction ==
    dasm.alive =>
        /\ dasm.npc = Len(program)
        /\ DOMAIN dasm.pclabels = 0..(Len(program) - 1)
        /\ \A o \in 0..(Len(program) - 1) :
              dasm.defs[o] =
                  IF o \in InstrStarts(program) /\ (phase = "scan" => o < instrptr)
                     THEN 1 ELSE 0

\* main's program has been scanned: 18 of its 62 offsets have a label
C20_Witness ==
    /\ program = MainProgram
    /\ phase = "link"
    /\ dasm.npc = 62
    /\ Cardinality({o \in 0..61 : dasm.defs[o] = 1}) = 18
    /\ dasm.defs[8] = 0
    /\ dasm.defs[7] = 1

\* C21: the scan of a well-formed program is one forward pass that ends:
\* every iteration moves instrptr forward by 1 (no operand) or by 5 (CONSTANT,
\* GET, SET, JGT) from one instruction start to the next, an instruction is
\* visited once (its label is not yet defined when the scan comes to it, and
\* it gets one template), and the loop is left, with instrptr at the end of
\* the program.
C21_ScanTerminates ==
    /\ [][phase = "scan" /\ instrptr < Len(program) =>
             /\ instrptr' = instrptr
                    + (IF program[instrptr + 1] \in {OP_CONSTANT, OP_GET, OP_SET, OP_JGT}
                          THEN 5 ELSE 1)
             /\ instrptr' > instrptr
             /\ instrptr' \in InstrStarts(program) \cup {Len(program)}
             /\ dasm.defs[instrptr] = 0
             /\ dasm'.defs[instrptr] = 1
             /\ Len(dasm'.actions) = Len(dasm.actions) + 1
             /\ phase' = "scan"
        ]_vars
    /\ (phase = "main") ~>
          (/\ phase = "link"
           /\ instrptr = Len(program)
           /\ Len(dasm.actions) = 1 + Cardinality(InstrStarts(program)))

\* the scan of main's program has ended at offset 62 after 18 iterations, the
\* last of them over the 1-byte HALT, the one before over a 1-byte PRINT
C21_Witness ==
    /\ program = MainProgram
    /\ phase = "link"
    /\ instrptr = 62
    /\ Len(dasm.actions) = 19
    /\ dasm.actions[19].lbl = 61
    /\ dasm.actions[17].lbl = 55

\* C22: an executed HALT ends the invocation: control is back in the caller
\* and rip is at no template, so that no instruction runs and no PRINT prints
\* after it (the template executed last stays the HALT), also when
\* instructions follow the HALT in the program; after every other instruction
\* that did not jump, rip is at the template of the instruction that follows
\* it in the program.
C22_HaltEnds ==
    /\ last.op = OP_HALT =>
          /\ phase = "returned"
          /\ ip = 0
          /\ \A op \in Opcodes \cup {TPL_PROLOGUE} : ~AtTemplate(op)
    /\ phase = "returned" => last.op = OP_HALT
    /\ (phase = "run" /\ last.op \in Opcodes \ {OP_HALT} /\ ~last.taken) =>
          /\ ip \in 1..Len(region.bytes)
          /\ Cur.off = last.off + InstrLen(last.op)

\* the countdown on 0 has returned through the HALT at offset 11: the twelve
\* templates behind it, a PRINT among them, have not run
C22_Witness ==
    /\ program = CountdownProgram
    /\ input = <<0>>
    /\ phase = "returned"
    /\ last.op = OP_HALT
    /\ last.off = 11
    /\ Len(program) > 12
    /\ out = <<>>
    /\ ~last.taken

\* C23: in src/demo.c, at every instruction boundary of a program built from
\* CONSTANT, INPUT, ADD, GET, SET and CMP, every slot of the runtime stack
\* holds the 64-bit sign extension of a signed 32-bit value: its upper half
\* repeats the sign bit of its lower half.
C23_SlotsSignExtended ==
    (/\ variant = "native"
     /\ phase = "run"
     /\ ip \in 2..Len(region.bytes)
     /\ \A o \in InstrStarts(program) :
           o < Cur.off =>
              program[o + 1] \in {OP_CONSTANT, OP_INPUT, OP_ADD, OP_GET, OP_SET, OP_CMP})
        => \A i \in 1..Len(VmStack) : VmStack[i] = SignExt64(VmStack[i][2])

\* C24: for every well-formed program and every input stream, the code of
\* src/src/demo.c and the code of src/unnamed/part_001 print the same lines:
\* at every moment one output is a prefix of the other, and when both
\* invocations have returned the outputs are equal.
C24_VariantsAgree ==
    phase = "both" =>
        LET n == both["native"].out
            c == both["custom"].out
            k == IF Len(n) < Len(c) THEN Len(n) ELSE Len(c)
        IN  /\ SubSeq(n, 1, k) = SubSeq(c, 1, k)
            /\ (both["native"].done /\ both["custom"].done) => n = c

\* C25: in src/unnamed/part_001 the pushes of a well-formed program, whatever
\* depth its stack reaches, leave the saved r12, rbx, rbp and the return
\* address above the stack area as the prologue stored them, and HALT
\* returns to the caller with the register values of the entry.
C25_PushesSpareFrame ==
    variant = "custom" =>
        /\ (phase = "run" /\ ip > 1) =>
              /\ Load64(m.mem, EntryRsp) = ReturnAddress
              /\ Load64(m.mem, EntryRsp - 2) = CallerRbp
              /\ Load64(m.mem, EntryRsp - 4) = CallerRbx
              /\ Load64(m.mem, EntryRsp - 6) = CallerR12
        /\ last.op = OP_HALT =>
              /\ phase = "returned"
              /\ m.r12 = CallerR12
              /\ m.rbx = CallerRbx
              /\ m.rbp = CallerRbp

\* C26: in src/demo.c, rsp being a multiple of 16 bytes before the caller's
\* call, rsp at the call of printf in the PRINT template is a multiple of 16
\* bytes exactly when the number of values left on the runtime stack after
\* the pop of the printed value is odd, and is 8 bytes off when it is even.
C26_PrintCallAlignment ==
    (/\ variant = "native"
     /\ (4 * (EntryRsp + 2)) % 16 = 0
     /\ phase = "run"
     /\ last.op = OP_PRINT)
        => LET left == StaticDepth(program, 0, Cur.off)
           IN  /\ left = Len(VmStack)
               /\ (4 * m.rsp) % 16 = (IF left % 2 = 1 THEN 0 ELSE 8)

\* main's program on (4, 5) has printed 20 with three values left: rsp was
\* 16-byte aligned at the call of printf
C26_Witness ==
    /\ variant = "native"
    /\ program = MainProgram
    /\ input = <<4, 5>>
    /\ phase = "run"
    /\ last.op = OP_PRINT
    /\ Len(VmStack) = 3
    /\ (4 * m.rsp) % 16 = 0
    /\ m.mem[m.rsp - 2] = ip

\* C27: when the byte at an instruction boundary is none of the ten opcodes,
\* the scan does not get past it: an iteration at that offset leaves instrptr
\* as it is and puts the label of the offset again (and no template), so
\* compile stays in its loop and never comes to link, nor returns.
C27_UnknownOpcodeLoops ==
    /\ [](UnknownAt(program, 0) >= 0 =>
             /\ phase \in {"main", "scan"}
             /\ instrptr <= UnknownAt(program, 0))
    /\ [][(phase = "scan" /\ instrptr = UnknownAt(program, 0)) =>
             /\ instrptr' = instrptr
             /\ phase' = "scan"
             /\ dasm'.defs[instrptr] = (IF dasm.defs[instrptr] = 0 THEN 1 ELSE 2)
             /\ dasm'.pclabels[instrptr] = Len(dasm.actions) + 1
             /\ dasm'.actions = dasm.actions
             /\ dasm'.status = dasm.status
        ]_vars

\* HALT, the byte 255, HALT: the scan stands at offset 1 and has put the
\* label of offset 1 more than once, the HALT behind it is never reached
C27_Witness ==
    /\ program = <<OP_HALT, 255, OP_HALT>>
    /\ phase = "scan"
    /\ instrptr = 1
    /\ UnknownAt(program, 0) = 1
    /\ dasm.defs[1] = 2
    /\ dasm.defs[0] = 1
    /\ dasm.defs[2] = 0
    /\ Len(dasm.actions) = 2

\* C28: whatever the bytes and the length of the program, compile reads
\* program[] only at indices below program_len, also when the last
\* instruction is a CONSTANT, GET, SET or JGT whose four operand bytes are
\* not all there.
C28_ReadsInsideProgram ==
    maxRead < Len(program)

\* C29: in every call of compile that returns, the emission state is set up
\* once, at the start, and released once, in the step that returns, after the
\* code has been encoded from it and mprotect has been called; no step
\* touches it once it is released. compile does not release the region: it
\* stays mapped with the same bytes and permissions while the code is called
\* and after, also when compile is called again.
C29_DasmLifetime ==
    [][/\ (~dasm.alive /\ dasm'.alive) =>
             /\ phase = "main" /\ phase' = "scan"
             /\ dasm'.actions = <<PrologueTemplate>>
       /\ (dasm.alive /\ ~dasm'.alive) =>
             /\ phase = "encoded" /\ phase' = "compiled"
             /\ region.bytes = Encoded(dasm)
       /\ phase' = "encoded" => phase = "mprotect" /\ dasm'.alive
       /\ phase' = "compiled" => ~dasm'.alive
       /\ (~dasm.alive /\ phase # "main") => dasm' = dasm
       /\ phase \in {"encoded", "compiled", "run", "returned"} =>
             /\ code = "region"
             /\ region.bytes # <<>>
             /\ IF phase' = "main"
                   THEN first'.addr = region.addr /\ first'.bytes = region.bytes
                   ELSE region' = region /\ code' = code
       /\ round = 2 => first' = first
      ]_vars

\* the code of the second compile of main's program is being run, the first
\* region still mapped, no emission state alive
C29_Witness ==
    /\ program = MainProgram
    /\ round = 2
    /\ phase = "run"
    /\ ip = 10
    /\ ~dasm.alive
    /\ dasm.actions = <<>>
    /\ first.addr = 1
    /\ Len(first.bytes) = 19
    /\ region.perms = {"R", "X"}

====
